---------------------------- MODULE Spec2Model ----------------------------
(***************************************************************************)
(* A model of the mixed-markup math renderer of the authoring tool         *)
(* (src/src/components/LatexRenderer.tsx) and of the input field that      *)
(* feeds it (src/src/pages/LatexPreviewTool.tsx).                          *)
(*                                                                         *)
(* A string is a sequence of one-character strings.  Every regular         *)
(* expression of the source is an operator that scans such a sequence the  *)
(* way the JavaScript engine does: leftmost match first, alternatives in   *)
(* the order written, greedy or lazy quantifiers as written, and a global  *)
(* replace that never rescans the text it has produced.                    *)
(***************************************************************************)
EXTENDS Naturals, Sequences, FiniteSets, TLC

(***************************************************************************)
(* Bounds of the model.                                                    *)
(***************************************************************************)
\* How many fragments the user types or pastes into the input field.
MaxFrags == 4

\* The longest body the scan loop is run on, every text over ScanAlphabet.
MaxBody == 4

\* The largest id addQuestion hands out before the list is cleared.
MaxId == 2

\* The most requests and timeouts of one kind awaited at the same time.
MaxPending == 2

\* The most calls of fetchData, the one of the mount included.
MaxFetches == 4

(***************************************************************************)
(* Strings.                                                                *)
(***************************************************************************)
BS == "\\"
NL == "\n"

Min(S) == CHOOSE m \in S : \A n \in S : m <= n

\* The least position of a set of positions, 0 for none.
FirstOf(S) == IF S = {} THEN 0 ELSE Min(S)

\* String.prototype.startsWith(p, i-1): p occurs in s at position i.
StartsWithAt(s, i, p) ==
  /\ i >= 1
  /\ i + Len(p) - 1 <= Len(s)
  /\ \A k \in 1..Len(p) : s[i + k - 1] = p[k]

\* String.prototype.indexOf(p, i-1) + 1: the first occurrence of p at or
\* after position i, 0 when there is none.
IndexOfFrom(s, p, i) ==
  FirstOf({j \in i..(Len(s) + 1 - Len(p)) : s[j] = p[1] /\ StartsWithAt(s, j, p)})

\* The first position at or after i that holds one of the characters cs.
IndexOfAnyFrom(s, cs, i) == FirstOf({j \in i..Len(s) : s[j] \in cs})

Includes(s, p) == IndexOfFrom(s, p, 1) # 0

\* s.substring(i-1): the text from position i on.
From(s, i) == SubSeq(s, i, Len(s))

\* s.replace(/p/g, r) for a literal pattern p.
RECURSIVE ReplaceAllFrom(_, _, _, _)
ReplaceAllFrom(s, i, p, r) ==
  LET j == IndexOfFrom(s, p, i)
  IN  IF j = 0 THEN From(s, i)
      ELSE SubSeq(s, i, j - 1) \o r \o ReplaceAllFrom(s, j + Len(p), p, r)

ReplaceAll(s, p, r) == ReplaceAllFrom(s, 1, p, r)

\* s.replace(p, r) for a literal string p: the first occurrence only.
ReplaceFirst(s, p, r) ==
  LET j == IndexOfFrom(s, p, 1)
  IN  IF j = 0 THEN s ELSE SubSeq(s, 1, j - 1) \o r \o From(s, j + Len(p))

\* s.replace(/open([^c]*)c/g, pre $1 post): open, then the longest run of
\* characters other than c, then c.  The run ends at the first c after open;
\* with no c left in the string no later open matches either.
RECURSIVE ReplaceDelimFrom(_, _, _, _, _, _)
ReplaceDelimFrom(s, i, open, c, pre, post) ==
  LET j == IndexOfFrom(s, open, i)
      k == IF j = 0 THEN 0 ELSE IndexOfFrom(s, <<c>>, j + Len(open))
  IN  IF j = 0 \/ k = 0 THEN From(s, i)
      ELSE SubSeq(s, i, j - 1) \o pre \o SubSeq(s, j + Len(open), k - 1)
             \o post \o ReplaceDelimFrom(s, k + 1, open, c, pre, post)

ReplaceDelim(s, open, c, pre, post) == ReplaceDelimFrom(s, 1, open, c, pre, post)

\* s.replace(/\\[,;:]/g, ' ').
RECURSIVE ReplaceThinFrom(_, _)
ReplaceThinFrom(s, i) ==
  LET j == FirstOf({k \in i..(Len(s) - 1) : s[k] = BS /\ s[k + 1] \in {",", ";", ":"}})
  IN  IF j = 0 THEN From(s, i)
      ELSE SubSeq(s, i, j - 1) \o <<" ">> \o ReplaceThinFrom(s, j + 2)

\* The characters String.prototype.trim removes (those the model types).
WhiteSpace == {" ", NL}

RECURSIVE TrimStart(_)
TrimStart(s) ==
  IF s # <<>> /\ s[1] \in WhiteSpace THEN TrimStart(Tail(s)) ELSE s

RECURSIVE TrimEnd(_)
TrimEnd(s) ==
  IF s # <<>> /\ s[Len(s)] \in WhiteSpace THEN TrimEnd(SubSeq(s, 1, Len(s) - 1)) ELSE s

Trim(s) == TrimEnd(TrimStart(s))

(***************************************************************************)
(* The commands the normalizer recognizes and the markers it writes.       *)
(***************************************************************************)
BeginEnumerate == <<BS, "b", "e", "g", "i", "n", "{", "e", "n", "u", "m", "e", "r", "a", "t", "e", "}">>
EndEnumerate   == <<BS, "e", "n", "d", "{", "e", "n", "u", "m", "e", "r", "a", "t", "e", "}">>
BeginItemize   == <<BS, "b", "e", "g", "i", "n", "{", "i", "t", "e", "m", "i", "z", "e", "}">>
EndItemize     == <<BS, "e", "n", "d", "{", "i", "t", "e", "m", "i", "z", "e", "}">>
ItemCmd        == <<BS, "i", "t", "e", "m">>
ItemOpen       == ItemCmd \o <<"[">>
LineBreakCmd   == <<BS, BS>>
NewlineCmd     == <<BS, "n", "e", "w", "l", "i", "n", "e">>
TextbfOpen     == <<BS, "t", "e", "x", "t", "b", "f", "{">>
TextitOpen     == <<BS, "t", "e", "x", "t", "i", "t", "{">>
UnderlineOpen  == <<BS, "u", "n", "d", "e", "r", "l", "i", "n", "e", "{">>
TextOpen       == <<BS, "t", "e", "x", "t", "{">>
QquadCmd       == <<BS, "q", "q", "u", "a", "d">>
QuadCmd        == <<BS, "q", "u", "a", "d">>

U3 == <<"_", "_", "_">>
ENUM_START      == U3 \o <<"E", "N", "U", "M", "_", "S", "T", "A", "R", "T">> \o U3
ENUM_END        == U3 \o <<"E", "N", "U", "M", "_", "E", "N", "D">> \o U3
LIST_START      == U3 \o <<"L", "I", "S", "T", "_", "S", "T", "A", "R", "T">> \o U3
LIST_END        == U3 \o <<"L", "I", "S", "T", "_", "E", "N", "D">> \o U3
ITEM_LABEL_     == U3 \o <<"I", "T", "E", "M", "_", "L", "A", "B", "E", "L", "_">>
ITEM            == U3 \o <<"I", "T", "E", "M">> \o U3
NEWLINE         == U3 \o <<"N", "E", "W", "L", "I", "N", "E">> \o U3
BOLD_START      == U3 \o <<"B", "O", "L", "D", "_", "S", "T", "A", "R", "T">> \o U3
BOLD_END        == U3 \o <<"B", "O", "L", "D", "_", "E", "N", "D">> \o U3
ITALIC_START    == U3 \o <<"I", "T", "A", "L", "I", "C", "_", "S", "T", "A", "R", "T">> \o U3
ITALIC_END      == U3 \o <<"I", "T", "A", "L", "I", "C", "_", "E", "N", "D">> \o U3
UNDERLINE_START == U3 \o <<"U", "N", "D", "E", "R", "L", "I", "N", "E", "_", "S", "T", "A", "R", "T">> \o U3
UNDERLINE_END   == U3 \o <<"U", "N", "D", "E", "R", "L", "I", "N", "E", "_", "E", "N", "D">> \o U3

(***************************************************************************)
(* convertLatexToHtml: the normalizer.  Sixteen global replaces, in the    *)
(* order of the source; each pass reads the output of the pass before it.  *)
(***************************************************************************)
NormLists(t) ==
  LET r1 == ReplaceAll(t, BeginEnumerate, ENUM_START)
      r2 == ReplaceAll(r1, EndEnumerate, ENUM_END)
      r3 == ReplaceAll(r2, BeginItemize, LIST_START)
  IN  ReplaceAll(r3, EndItemize, LIST_END)

NormItems(t) ==
  ReplaceAll(ReplaceDelim(t, ItemOpen, "]", ITEM_LABEL_, U3), ItemCmd, ITEM)

\* NormBreaks without the replace of the double backslash.
NormBreaksNewlineOnly(t) == ReplaceAll(t, NewlineCmd, NEWLINE)

NormBreaks(t) ==
  ReplaceAll(ReplaceAll(t, LineBreakCmd, NEWLINE), NewlineCmd, NEWLINE)

NormFormat(t) ==
  LET r1 == ReplaceDelim(t, TextbfOpen, "}", BOLD_START, BOLD_END)
      r2 == ReplaceDelim(r1, TextitOpen, "}", ITALIC_START, ITALIC_END)
  IN  ReplaceDelim(r2, UnderlineOpen, "}", UNDERLINE_START, UNDERLINE_END)

NormText(t) == ReplaceDelim(t, TextOpen, "}", <<>>, <<>>)

NormSpaces(t) ==
  LET r1 == ReplaceAll(t, QquadCmd, <<" ", " ", " ", " ">>)
      r2 == ReplaceAll(r1, QuadCmd, <<" ", " ">>)
  IN  ReplaceThinFrom(r2, 1)

convertLatexToHtml(text) ==
  NormSpaces(NormText(NormFormat(NormBreaks(NormItems(NormLists(text))))))

(***************************************************************************)
(* Renderable nodes.  A text run carries its three style flags; a math     *)
(* node carries the expression handed to the typesetting backend and the   *)
(* display mode; an error node is the literal fallback of SafeInlineMath /  *)
(* SafeBlockMath.                                                          *)
(***************************************************************************)
TextNode(t, b, i, u) ==
  [type |-> "text", text |-> t, bold |-> b, italic |-> i, underline |-> u]

BrNode == [type |-> "br"]

MathNode(e, d) == [type |-> "math", text |-> e, display |-> d]

ErrorNode(t, d) == [type |-> "error", text |-> t, display |-> d]

\* The typesetting backend (InlineMath / BlockMath of react-katex) fails on an
\* expression whose braces do not balance: Balanced(m, d) reads m with d
\* braces open.
RECURSIVE Balanced(_, _)
Balanced(m, d) ==
  IF m = <<>> THEN d = 0
  ELSE IF Head(m) = "{" THEN Balanced(Tail(m), d + 1)
  ELSE IF Head(m) = "}" THEN d > 0 /\ Balanced(Tail(m), d - 1)
  ELSE Balanced(Tail(m), d)

KatexThrows(math) == ~Balanced(math, 0)

\* SafeInlineMath and SafeBlockMath: the backend's node, or in the catch
\* branch the literal text written there, "$" math "$" and "$$" math "$$".
SafeInlineMath(math) ==
  IF KatexThrows(math) THEN ErrorNode(<<"$">> \o math \o <<"$">>, FALSE)
  ELSE MathNode(math, FALSE)

SafeBlockMath(math) ==
  IF KatexThrows(math) THEN ErrorNode(<<"$", "$">> \o math \o <<"$", "$">>, TRUE)
  ELSE MathNode(math, TRUE)

(***************************************************************************)
(* renderPlainText: a text run split at raw newlines into lines with a     *)
(* line break between them; a line that holds an opening tag is split at   *)
(* its tags and each piece takes the flags set so far on that line.        *)
(***************************************************************************)
\* text.split('\n')
RECURSIVE SplitLinesFrom(_, _)
SplitLinesFrom(s, i) ==
  LET j == IndexOfFrom(s, <<NL>>, i)
  IN  IF j = 0 THEN <<From(s, i)>>
      ELSE <<SubSeq(s, i, j - 1)>> \o SplitLinesFrom(s, j + 1)

\* The length of a match of /<\/?[biu]>/ at position i, 0 when there is none.
TagLenAt(s, i) ==
  IF i + 2 <= Len(s) /\ s[i] = "<" /\ s[i + 1] \in {"b", "i", "u"} /\ s[i + 2] = ">"
    THEN 3
  ELSE IF i + 3 <= Len(s) /\ s[i] = "<" /\ s[i + 1] = "/"
          /\ s[i + 2] \in {"b", "i", "u"} /\ s[i + 3] = ">"
    THEN 4
  ELSE 0

\* The parts.forEach loop over line.split(/(<\/?[biu]>)/), from position i with
\* the flags bold, italic, underline.
RECURSIVE FormatPartsFrom(_, _, _, _, _)
FormatPartsFrom(line, i, bold, italic, underline) ==
  LET t   == FirstOf({k \in i..Len(line) : line[k] = "<" /\ TagLenAt(line, k) > 0})
      j   == IF t = 0 THEN Len(line) + 1 ELSE t
      n   == TagLenAt(line, j)
      tag == SubSeq(line, j, j + n - 1)
      c   == tag[n - 1]
      on  == n = 3
      run == IF j > i THEN <<TextNode(SubSeq(line, i, j - 1), bold, italic, underline)>>
             ELSE <<>>
  IN  IF t = 0 THEN run
      ELSE run \o FormatPartsFrom(line, j + n,
                                  IF c = "b" THEN on ELSE bold,
                                  IF c = "i" THEN on ELSE italic,
                                  IF c = "u" THEN on ELSE underline)

RenderLine(line) ==
  IF Includes(line, <<"<", "b", ">">>) \/ Includes(line, <<"<", "i", ">">>)
       \/ Includes(line, <<"<", "u", ">">>)
    THEN FormatPartsFrom(line, 1, FALSE, FALSE, FALSE)
  ELSE IF line # <<>> THEN <<TextNode(line, FALSE, FALSE, FALSE)>>
  ELSE <<>>

RECURSIVE RenderLines(_, _)
RenderLines(lines, lineIdx) ==
  IF lineIdx > Len(lines) THEN <<>>
  ELSE (IF lineIdx > 1 THEN <<BrNode>> ELSE <<>>)
         \o RenderLine(lines[lineIdx]) \o RenderLines(lines, lineIdx + 1)

renderPlainText(text) == RenderLines(SplitLinesFrom(text, 1), 1)

(***************************************************************************)
(* renderInlineContent: markers to newline and tags, then the loop of      *)
(* mathPattern.exec over the body.                                         *)
(***************************************************************************)
TagText(text) ==
  LET t0 == ReplaceAll(text, NEWLINE, <<NL>>)
      t1 == ReplaceAll(t0, BOLD_START, <<"<", "b", ">">>)
      t2 == ReplaceAll(t1, BOLD_END, <<"<", "/", "b", ">">>)
      t3 == ReplaceAll(t2, ITALIC_START, <<"<", "i", ">">>)
      t4 == ReplaceAll(t3, ITALIC_END, <<"<", "/", "i", ">">>)
      t5 == ReplaceAll(t4, UNDERLINE_START, <<"<", "u", ">">>)
  IN  ReplaceAll(t5, UNDERLINE_END, <<"<", "/", "u", ">">>)

NoMatch == [group |-> 0, last |-> 0, inner |-> <<>>]

\* Alternative 1 with a greedy body, \$\$([\s\S]*)\$\$: the last "$$" closes it.
DollarBlockGreedyAt(s, i) ==
  LET ends == IF StartsWithAt(s, i, <<"$", "$">>)
                THEN {k \in (i + 2)..(Len(s) - 1) : StartsWithAt(s, k, <<"$", "$">>)}
              ELSE {}
      k    == CHOOSE m \in ends : \A n \in ends : n <= m
  IN  IF ends = {} THEN NoMatch
      ELSE [group |-> 1, last |-> k + 1, inner |-> SubSeq(s, i + 2, k - 1)]

\* Alternative 1, \$\$([\s\S]*?)\$\$, at position i: the shortest body, so the
\* first "$$" at or after i + 2 closes it.
DollarBlockAt(s, i) ==
  LET k == IF StartsWithAt(s, i, <<"$", "$">>) THEN IndexOfFrom(s, <<"$", "$">>, i + 2) ELSE 0
  IN  IF k = 0 THEN NoMatch
      ELSE [group |-> 1, last |-> k + 1, inner |-> SubSeq(s, i + 2, k - 1)]

\* Alternative 2 with a body that may hold a newline, \$([^$]+?)\$.
DollarInlineAnyLineAt(s, i) ==
  LET k == IF StartsWithAt(s, i, <<"$">>) THEN IndexOfAnyFrom(s, {"$"}, i + 1) ELSE 0
  IN  IF k = 0 \/ k = i + 1 THEN NoMatch
      ELSE [group |-> 2, last |-> k, inner |-> SubSeq(s, i + 1, k - 1)]

\* Alternative 2, \$([^$\n]+?)\$, at position i: one or more characters that
\* are neither "$" nor a newline, then "$".
DollarInlineAt(s, i) ==
  LET k == IF StartsWithAt(s, i, <<"$">>) THEN IndexOfAnyFrom(s, {"$", NL}, i + 1) ELSE 0
  IN  IF k = 0 \/ k = i + 1 \/ s[k] # "$" THEN NoMatch
      ELSE [group |-> 2, last |-> k, inner |-> SubSeq(s, i + 1, k - 1)]

\* Alternative 3, \\\[([\s\S]*?)\\\], at position i.
BracketBlockAt(s, i) ==
  LET k == IF StartsWithAt(s, i, <<BS, "[">>) THEN IndexOfFrom(s, <<BS, "]">>, i + 2) ELSE 0
  IN  IF k = 0 THEN NoMatch
      ELSE [group |-> 3, last |-> k + 1, inner |-> SubSeq(s, i + 2, k - 1)]

\* Alternative 4, \\\(([\s\S]*?)\\\), at position i.
ParenInlineAt(s, i) ==
  LET k == IF StartsWithAt(s, i, <<BS, "(">>) THEN IndexOfFrom(s, <<BS, ")">>, i + 2) ELSE 0
  IN  IF k = 0 THEN NoMatch
      ELSE [group |-> 4, last |-> k + 1, inner |-> SubSeq(s, i + 2, k - 1)]

\* mathPattern at position i: the first alternative that matches there.
mathPattern(s, i) ==
  IF DollarBlockAt(s, i).group # 0 THEN DollarBlockAt(s, i)
  ELSE IF DollarInlineAt(s, i).group # 0 THEN DollarInlineAt(s, i)
  ELSE IF BracketBlockAt(s, i).group # 0 THEN BracketBlockAt(s, i)
  ELSE ParenInlineAt(s, i)

\* mathPattern.exec from position lastIndex: the leftmost match, 0 for null.
ExecIndex(s, lastIndex) ==
  FirstOf({i \in lastIndex..Len(s) : s[i] \in {"$", BS} /\ mathPattern(s, i).group # 0})

\* The node pushed for one match: blockMath = match[1] || match[3],
\* inlineMath = match[2] || match[4]; an empty capture is falsy.
MatchNodes(m) ==
  IF m.group \in {1, 3} /\ m.inner # <<>> THEN <<SafeBlockMath(Trim(m.inner))>>
  ELSE IF m.group \in {2, 4} /\ m.inner # <<>> THEN <<SafeInlineMath(Trim(m.inner))>>
  ELSE <<>>

\* A resumption of the scan at the character after the one a match began at.
NextIndexInsideMatch(i, m) == i + 1

\* A resumption of the scan at the position the match was found at.
NextIndexStuck(i, m) == i

\* Where the scan resumes after the match m found at position i: at the first
\* character after the match, match.index + match[0].length.
NextIndex(i, m) == m.last + 1

\* The while loop and the remaining text; lastIndex is the position of the
\* first character not yet consumed.
RECURSIVE ScanMath(_, _)
ScanMath(s, lastIndex) ==
  LET i == ExecIndex(s, lastIndex)
      m == mathPattern(s, i)
  IN  IF i = 0
        THEN (IF lastIndex <= Len(s) THEN renderPlainText(From(s, lastIndex)) ELSE <<>>)
      ELSE (IF i > lastIndex THEN renderPlainText(SubSeq(s, lastIndex, i - 1)) ELSE <<>>)
             \o MatchNodes(m) \o ScanMath(s, NextIndex(i, m))

\* The matches of the same loop as spans of the body: where each begins and
\* ends, the alternative that matched and the text it captured.
RECURSIVE MathSpans(_, _)
MathSpans(s, lastIndex) ==
  LET i == ExecIndex(s, lastIndex)
      m == mathPattern(s, i)
  IN  IF i = 0 THEN <<>>
      ELSE <<[start |-> i, end |-> m.last, group |-> m.group, inner |-> m.inner]>>
             \o MathSpans(s, NextIndex(i, m))

renderInlineContent(text) == ScanMath(TagText(text), 1)

(***************************************************************************)
(* renderContent: the segmenter.  The normalized text is split at the list *)
(* markers; the parts are visited in order with inList and listItems.      *)
(***************************************************************************)
ListMarkerLenAt(s, i) ==
  IF StartsWithAt(s, i, ENUM_START) THEN Len(ENUM_START)
  ELSE IF StartsWithAt(s, i, ENUM_END) THEN Len(ENUM_END)
  ELSE IF StartsWithAt(s, i, LIST_START) THEN Len(LIST_START)
  ELSE IF StartsWithAt(s, i, LIST_END) THEN Len(LIST_END)
  ELSE 0

\* /(___ITEM_LABEL_[^_]*___|___ITEM___)/ at position i: the label runs to the
\* first "_" after the prefix, and three of them must stand there.
ItemMarkerLenAt(s, i) ==
  IF StartsWithAt(s, i, ITEM_LABEL_)
    THEN LET e == IndexOfFrom(s, <<"_">>, i + Len(ITEM_LABEL_))
         IN  IF e # 0 /\ StartsWithAt(s, e, U3) THEN e + 3 - i ELSE 0
  ELSE IF StartsWithAt(s, i, ITEM) THEN Len(ITEM)
  ELSE 0

\* text.split(/(...)/) with one capturing group: text, marker, text, ...
RECURSIVE SplitListFrom(_, _)
SplitListFrom(s, i) ==
  LET j == FirstOf({k \in i..Len(s) : s[k] = "_" /\ ListMarkerLenAt(s, k) > 0})
      n == ListMarkerLenAt(s, j)
  IN  IF j = 0 THEN <<From(s, i)>>
      ELSE <<SubSeq(s, i, j - 1), SubSeq(s, j, j + n - 1)>> \o SplitListFrom(s, j + n)

RECURSIVE SplitItemsFrom(_, _)
SplitItemsFrom(s, i) ==
  LET j == FirstOf({k \in i..Len(s) : s[k] = "_" /\ ItemMarkerLenAt(s, k) > 0})
      n == ItemMarkerLenAt(s, j)
  IN  IF j = 0 THEN <<From(s, i)>>
      ELSE <<SubSeq(s, i, j - 1), SubSeq(s, j, j + n - 1)>> \o SplitItemsFrom(s, j + n)

\* The default label of an unlabelled item, one glyph.
Bullet == <<"bullet">>

\* prevPart.replace('___ITEM_LABEL_', '').replace('___', '')
LabelOf(prevPart) == ReplaceFirst(ReplaceFirst(prevPart, ITEM_LABEL_, <<>>), U3, <<>>)

\* The list item pushed for a chunk: its label and body, the text of the label
\* node, "(" label ")", left out for an empty label, and the body's nodes.
ItemNode(label, trimmedContent) ==
  [label     |-> label,
   body      |-> trimmedContent,
   labelNode |-> IF label # <<>> THEN <<"(">> \o label \o <<")">> ELSE <<>>,
   content   |-> renderInlineContent(trimmedContent)]

\* The itemParts.forEach loop from index itemIdx (1-based) on.
RECURSIVE ItemsFrom(_, _)
ItemsFrom(itemParts, itemIdx) ==
  IF itemIdx > Len(itemParts) THEN <<>>
  ELSE
    LET itemPart == itemParts[itemIdx]
        prevPart == IF itemIdx > 1 THEN itemParts[itemIdx - 1] ELSE <<>>
        label    == IF StartsWithAt(prevPart, 1, ITEM_LABEL_) THEN LabelOf(prevPart)
                    ELSE IF prevPart = ITEM THEN Bullet
                    ELSE <<>>
        trimmedContent == Trim(itemPart)
        pushed == IF StartsWithAt(itemPart, 1, ITEM_LABEL_) \/ itemPart = ITEM THEN <<>>
                  ELSE IF trimmedContent # <<>> /\ (label # <<>> \/ itemIdx = 1)
                    THEN <<ItemNode(label, trimmedContent)>>
                  ELSE <<>>
    IN  pushed \o ItemsFrom(itemParts, itemIdx + 1)

\* The span pushed for a part outside a list: the text of the segment and the
\* nodes the inline renderer returns for it.
SpanNode(text) ==
  [type |-> "span", text |-> text, children |-> renderInlineContent(text)]

ListNode(items) == [type |-> "list", items |-> items]

\* PlainSegment with the untrimmed part handed to the inline renderer.
PlainSegmentUntrimmed(part, result) ==
  IF Trim(part) # <<>> THEN Append(result, SpanNode(part))
  ELSE result

\* A part outside a list: its trimmed text, when there is any, is rendered
\* into one span pushed on result.
PlainSegment(part, result) ==
  IF Trim(part) # <<>> THEN Append(result, SpanNode(Trim(part)))
  ELSE result

\* The enumParts.forEach loop from index partIdx (1-based) on, with the
\* closure variables inList, listItems and result.
RECURSIVE PartsFrom(_, _, _, _, _)
PartsFrom(enumParts, partIdx, inList, listItems, result) ==
  IF partIdx > Len(enumParts) THEN result
  ELSE
    LET part == enumParts[partIdx]
    IN  IF part = ENUM_START \/ part = LIST_START
          THEN PartsFrom(enumParts, partIdx + 1, TRUE, <<>>, result)
        ELSE IF part = ENUM_END \/ part = LIST_END
          THEN PartsFrom(enumParts, partIdx + 1, FALSE, listItems,
                         IF listItems # <<>> THEN Append(result, ListNode(listItems))
                         ELSE result)
        ELSE IF inList
          THEN PartsFrom(enumParts, partIdx + 1, inList,
                         listItems \o ItemsFrom(SplitItemsFrom(part, 1), 1), result)
        ELSE PartsFrom(enumParts, partIdx + 1, inList, listItems,
                       PlainSegment(part, result))

renderContent(text) == PartsFrom(SplitListFrom(text, 1), 1, FALSE, <<>>, <<>>)

(***************************************************************************)
(* The preview tool: the input field latexInput and the renderer mounted   *)
(* on it.  React renders again after every setLatexInput, so each action   *)
(* ends with the component's output for the new content.                   *)
(***************************************************************************)
\* The initial text of the input field.
DefaultLatex ==
  <<"H", "e", "r", "e", "'", "s", " ", "a", "n", " ", "i", "n", "l", "i",
    "n", "e", " ", "e", "q", "u", "a", "t", "i", "o", "n", ":", " ", "$",
    "E", " ", "=", " ", "m", "c", "^", "2", "$", " ", "a", "n", "d", " ",
    "a", "n", "o", "t", "h", "e", "r", " ", "o", "n", "e", " ", BS, "(",
    "a", "^", "2", " ", "+", " ", "b", "^", "2", " ", "=", " ", "c", "^",
    "2", BS, ")", ".", NL, NL, "A", "n", "d", " ", "h", "e", "r", "e", "'",
    "s", " ", "a", " ", "b", "l", "o", "c", "k", " ", "e", "q", "u", "a",
    "t", "i", "o", "n", ":", NL, "$", "$", BS, "i", "n", "t", "_", "{",
    "-", BS, "i", "n", "f", "t", "y", "}", "^", "{", BS, "i", "n", "f",
    "t", "y", "}", " ", "e", "^", "{", "-", "x", "^", "2", "}", " ", "d",
    "x", " ", "=", " ", BS, "s", "q", "r", "t", "{", BS, "p", "i", "}",
    "$", "$", NL, NL, "Y", "o", "u", " ", "c", "a", "n", " ", "a", "l",
    "s", "o", " ", "u", "s", "e", " ", "d", "i", "s", "p", "l", "a", "y",
    " ", "m", "a", "t", "h", ":", NL, BS, "[", BS, "s", "u", "m", "_", "{",
    "i", "=", "1", "}", "^", "{", "n", "}", " ", "i", " ", "=", " ", BS,
    "f", "r", "a", "c", "{", "n", "(", "n", "+", "1", ")", "}", "{", "2",
    "}", BS, "]">>

\* Two of the quick examples.
ExampleIntegrals ==
  <<"$", "$", BS, "i", "n", "t", "_", "{", "0", "}", "^", "{", BS, "i",
    "n", "f", "t", "y", "}", " ", "e", "^", "{", "-", "x", "}", " ", "d",
    "x", " ", "=", " ", "1", "$", "$">>

ExampleMatrices ==
  <<"$", "$", BS, "b", "e", "g", "i", "n", "{", "p", "m", "a", "t", "r",
    "i", "x", "}", " ", "a", " ", "&", " ", "b", " ", BS, BS, " ", "c",
    " ", "&", " ", "d", " ", BS, "e", "n", "d", "{", "p", "m", "a", "t",
    "r", "i", "x", "}", "$", "$">>

ExampleBasicMath ==
  <<"T", "h", "e", " ", "q", "u", "a", "d", "r", "a", "t", "i", "c", " ",
    "f", "o", "r", "m", "u", "l", "a", ":", " ", "$", "x", " ", "=", " ",
    BS, "f", "r", "a", "c", "{", "-", "b", " ", BS, "p", "m", " ", BS,
    "s", "q", "r", "t", "{", "b", "^", "2", " ", "-", " ", "4", "a", "c",
    "}", "}", "{", "2", "a", "}", "$">>

ExampleGreekLetters ==
  <<"S", "o", "m", "e", " ", "G", "r", "e", "e", "k", " ", "l", "e", "t",
    "t", "e", "r", "s", ":", " ", "$", BS, "a", "l", "p", "h", "a", ",",
    " ", BS, "b", "e", "t", "a", ",", " ", BS, "g", "a", "m", "m", "a", ",",
    " ", BS, "D", "e", "l", "t", "a", ",", " ", BS, "O", "m", "e", "g",
    "a", "$">>

ExampleComplexEquation ==
  <<"$", "$", BS, "f", "r", "a", "c", "{", BS, "p", "a", "r", "t", "i",
    "a", "l", " ", "f", "}", "{", BS, "p", "a", "r", "t", "i", "a", "l",
    " ", "x", "}", " ", "=", " ", BS, "l", "i", "m", "_", "{", "h", " ", BS,
    "t", "o", " ", "0", "}", " ", BS, "f", "r", "a", "c", "{", "f", "(",
    "x", "+", "h", ")", " ", "-", " ", "f", "(", "x", ")", "}", "{", "h",
    "}", "$", "$">>

exampleLatex ==
  {ExampleBasicMath, ExampleIntegrals, ExampleMatrices,
   ExampleGreekLetters, ExampleComplexEquation}

\* What the user types or pastes in one change of the field.
KeyTextbfBold ==
  <<BS, "t", "e", "x", "t", "b", "f", "{", "b", "o", "l", "d", " ">>

KeyTextitBoth ==
  <<BS, "t", "e", "x", "t", "i", "t", "{", "b", "o", "t", "h", "}">>

KeyEndBrace ==
  <<" ", "e", "n", "d", "}">>

KeyItemAFoo ==
  <<BS, "i", "t", "e", "m", "[", "(", "a", ")", "]", " ", "F", "o", "o">>

KeyItemBar ==
  <<BS, "i", "t", "e", "m", " ", "B", "a", "r">>

KeyItemB ==
  <<BS, "i", "t", "e", "m", "[", "(", "b", ")", "]">>

KeyBlockA ==
  <<"$", "$", "a", "$", "$">>

KeyInlineA ==
  <<"$", "a", "$">>

KeyBracketA == <<BS, "[", "a", BS, "]">>

KeyItemsep ==
  <<BS, "i", "t", "e", "m", "s", "e", "p">>

KeyNewlines ==
  <<BS, "n", "e", "w", "l", "i", "n", "e", "s">>

KeyQuadratic ==
  <<BS, "q", "u", "a", "d", "r", "a", "t", "i", "c">>

KeyAlpha ==
  <<BS, "a", "l", "p", "h", "a">>

KeySolveRoots ==
  <<"S", "o", "l", "v", "e", ":", " ", "$", "x", "^", "2", "+", "1", "=",
    "0", "$", ".", " ", "R", "o", "o", "t", "s", ":">>

KeyBlockPm ==
  <<"$", "$", "x", "=", BS, "p", "m", " ", "i", "$", "$">>

KeyInlineB ==
  <<"$", "b", "$">>

KeyTextQu ==
  <<BS, "t", "e", "x", "t", "{", BS, "q", "u", "}">>

\* The keyboards: each session types the fragments of one of them.
KeysInline == {<<"$">>, <<"a">>, <<" ">>, LineBreakCmd, <<NL>>}

KeysBlock == {<<"$", "$">>, <<"$">>, <<"a">>, <<" ">>, KeyBlockA}

KeysEscaped == {<<BS, "(">>, <<BS, ")">>, <<"}">>, KeyBlockA, KeyBracketA}

KeysFormat == {KeyTextbfBold, KeyTextitBoth, KeyEndBrace, KeyInlineA, LineBreakCmd}

KeysList == {BeginItemize, EndItemize, KeyItemAFoo, KeyItemBar, KeyItemB, <<"x">>}

KeysPlain == {<<"a">>, <<" ">>, <<NL>>, <<"b">>, <<"<", "b", ">">>}

KeysCommands == {KeyItemsep, KeyNewlines, KeyQuadratic, KeyAlpha, <<" ">>}

KeysScenario == {KeySolveRoots, LineBreakCmd, KeyBlockPm, KeyBlockA, KeyInlineB}

KeysOrder == {KeyTextQu, <<"a", "d">>, ItemOpen, ItemCmd, <<"]">>}

Keyboards ==
  {KeysInline, KeysBlock, KeysEscaped, KeysFormat, KeysList, KeysPlain,
   KeysCommands, KeysScenario, KeysOrder}

VARIABLES
  latexInput,        \* the content of the input field, the renderer's prop
  keys,              \* the fragments this session types
  edits,             \* changes typed since the field was last cleared
  processedContent,  \* convertLatexToHtml(content) of the last render
  output,            \* the nodes the renderer returned
  scanBody,          \* processedText of one call of renderInlineContent
  scanPos,           \* lastIndex of that call's loop, as a position from 1
  scanDone,          \* whether exec has returned null
  questions,         \* QuestionBuilder: the list of questions
  nextId,            \* QuestionBuilder: the id of the next question
  aiStates,          \* QuestionBuilder: id -> prompt, isLoading, error
  history,           \* QuestionBuilder: id -> the entry undo reads, or null
  aiRequests,        \* calls of handleAIModify awaiting their response
  submitLoading,     \* QuestionBuilder: id -> boolean
  submitError,       \* QuestionBuilder: id -> message or null
  submitSuccess,     \* QuestionBuilder: id -> boolean
  submitRequests,    \* calls of handleSubmitQuestion awaiting their response
  submitTimers,      \* ids whose three-second timeout has not fired yet
  data,              \* useDropdownData: the data of the hook
  loading,           \* useDropdownData: the loading flag
  error,             \* useDropdownData: the error message or null
  calls              \* the calls of fetchAllDropdownData, in starting order

rendererVars == <<latexInput, keys, edits, processedContent, output>>

scanVars == <<scanBody, scanPos, scanDone>>

builderVars ==
  <<questions, nextId, aiStates, history, aiRequests,
    submitLoading, submitError, submitSuccess, submitRequests, submitTimers>>

hookVars == <<data, loading, error, calls>>

vars == <<rendererVars, scanVars, builderVars, hookVars>>

\* null, and a value that may be null: the empty tuple or the value in a tuple.
null == <<>>

Some(v) == <<v>>

\* The empty object {}.
EmptyMap == [k \in {} |-> null]

\* The components that are not mounted hold these values and never change.
NoRenderer ==
  /\ latexInput = <<>> /\ keys = {} /\ edits = 0
  /\ processedContent = <<>> /\ output = <<>>

NoScan == scanBody = <<>> /\ scanPos = 1 /\ scanDone = TRUE

NoBuilder ==
  /\ questions = <<>> /\ nextId = 0 /\ aiStates = EmptyMap /\ history = EmptyMap
  /\ aiRequests = <<>> /\ submitLoading = EmptyMap /\ submitError = EmptyMap
  /\ submitSuccess = EmptyMap /\ submitRequests = <<>> /\ submitTimers = <<>>

NoHook == data = 0 /\ loading = FALSE /\ error = null /\ calls = <<>>

\* A render without the test of the content and without the segmenter: the
\* whole normalized text in one span.
LatexRendererWholeSpan(c) ==
  [processed |-> convertLatexToHtml(c), nodes |-> <<SpanNode(convertLatexToHtml(c))>>]

\* One render of the component LatexRenderer on the content c: the normalized
\* text and the nodes returned; nothing is computed for an empty content.
LatexRenderer(c) ==
  IF c = <<>> THEN [processed |-> <<>>, nodes |-> <<>>]
  ELSE LET p == convertLatexToHtml(c)
       IN  [processed |-> p, nodes |-> renderContent(p)]

\* The renders of the fixed texts, the same on every call.
fixedRender == [c \in exampleLatex \cup {DefaultLatex, <<>>} |-> LatexRenderer(c)]

Init ==
  /\ latexInput = DefaultLatex
  /\ keys \in Keyboards
  /\ edits = MaxFrags
  /\ processedContent = fixedRender[DefaultLatex].processed
  /\ output = fixedRender[DefaultLatex].nodes
  /\ NoScan /\ NoBuilder /\ NoHook

\* onChange of the textarea: the user appends the fragment f.
setLatexInput(f) ==
  /\ edits < MaxFrags
  /\ latexInput' = latexInput \o f
  /\ edits' = edits + 1
  /\ LET r == LatexRenderer(latexInput \o f)
     IN  processedContent' = r.processed /\ output' = r.nodes
  /\ UNCHANGED <<keys, scanVars, builderVars, hookVars>>

\* The Clear button: setLatexInput('').
Clear ==
  /\ latexInput' = <<>>
  /\ edits' = 0
  /\ processedContent' = fixedRender[<<>>].processed
  /\ output' = fixedRender[<<>>].nodes
  /\ UNCHANGED <<keys, scanVars, builderVars, hookVars>>

\* A quick-example button.
loadExample(content) ==
  /\ latexInput' = content
  /\ edits' = MaxFrags
  /\ processedContent' = fixedRender[content].processed
  /\ output' = fixedRender[content].nodes
  /\ UNCHANGED <<keys, scanVars, builderVars, hookVars>>

Next ==
  \/ \E f \in keys : setLatexInput(f)
  \/ Clear
  \/ \E e \in exampleLatex : loadExample(e)

Spec == Init /\ [][Next]_vars

(***************************************************************************)
(* What the claims read off a state.                                       *)
(***************************************************************************)
RECURSIVE ItemLeaves(_)
ItemLeaves(items) ==
  IF items = <<>> THEN <<>> ELSE Head(items).content \o ItemLeaves(Tail(items))

\* The leaf nodes of an output, in document order.
RECURSIVE Leaves(_)
Leaves(nodes) ==
  IF nodes = <<>> THEN <<>>
  ELSE (IF Head(nodes).type = "span" THEN Head(nodes).children
        ELSE ItemLeaves(Head(nodes).items)) \o Leaves(Tail(nodes))

\* The literal text of text runs and line breaks, a line break read as a
\* newline; a math node contributes nothing.
RECURSIVE NodeText(_)
NodeText(leaves) ==
  IF leaves = <<>> THEN <<>>
  ELSE (IF Head(leaves).type = "text" THEN Head(leaves).text
        ELSE IF Head(leaves).type = "br" THEN <<NL>>
        ELSE <<>>) \o NodeText(Tail(leaves))

HasChar(s, cs) == \E k \in 1..Len(s) : s[k] \in cs

NotWhite(ch) == ch \notin WhiteSpace

\* s without its white space.
NoWS(s) == SelectSeq(s, NotWhite)

\* a can be read in b from left to right, skipping characters of b.
RECURSIVE IsSubseq(_, _)
IsSubseq(a, b) ==
  IF a = <<>> THEN TRUE
  ELSE IF b = <<>> THEN FALSE
  ELSE IF Head(a) = Head(b) THEN IsSubseq(Tail(a), Tail(b))
  ELSE IsSubseq(a, Tail(b))

\* The markers and tags of the renderer that an input may spell out itself.
OpenTags == {<<"<", "b", ">">>, <<"<", "i", ">">>, <<"<", "u", ">">>}

FixedMarkers ==
  {ENUM_START, ENUM_END, LIST_START, LIST_END, ITEM, NEWLINE, BOLD_START, BOLD_END,
   ITALIC_START, ITALIC_END, UNDERLINE_START, UNDERLINE_END}

SpellsMarker(c) == \E m \in FixedMarkers \cup OpenTags \cup {ITEM_LABEL_} : Includes(c, m)

\* An input with no command, no math delimiter and no marker or tag text.
NoCommands(c) == ~HasChar(c, {BS, "$"}) /\ ~SpellsMarker(c)

Plain(t) == TextNode(t, FALSE, FALSE, FALSE)

(***************************************************************************)
(* C1.  Inline math.                                                       *)
(***************************************************************************)
\* The input is "$" expr "$" with one or more characters in expr, none of them
\* "$" or a newline.
IsInlineInput(c) ==
  /\ Len(c) >= 3
  /\ c[1] = "$" /\ c[Len(c)] = "$"
  /\ ~HasChar(SubSeq(c, 2, Len(c) - 1), {"$", NL})

InlineExpr(c) == SubSeq(c, 2, Len(c) - 1)

\* C1: for every well-formed inline math input "$expr$", expr free of "$" and
\* of newlines, the output is exactly one TypesetMath node whose expression is
\* expr, trimmed, with displayMode false, and there is no fallback node; also
\* when expr holds a command the normalizer rewrites.
C1_InlineMathOneNode ==
  (IsInlineInput(latexInput) /\ ~KatexThrows(Trim(InlineExpr(latexInput))))
    => Leaves(output) = <<MathNode(Trim(InlineExpr(latexInput)), FALSE)>>

(***************************************************************************)
(* C2.  Block math.                                                        *)
(***************************************************************************)
IsBlockInput(c) ==
  /\ Len(c) >= 4
  /\ StartsWithAt(c, 1, <<"$", "$">>) /\ StartsWithAt(c, Len(c) - 1, <<"$", "$">>)
  /\ ~HasChar(SubSeq(c, 3, Len(c) - 2), {"$"})

BlockExpr(c) == SubSeq(c, 3, Len(c) - 2)

\* C2: for every well-formed block math input "$$expr$$" the output is exactly
\* one TypesetMath node whose expression is expr, trimmed, with displayMode
\* true; expr may be empty, all white space, or hold a line-break command.
C2_BlockMathOneNode ==
  (IsBlockInput(latexInput) /\ ~KatexThrows(Trim(BlockExpr(latexInput))))
    => Leaves(output) = <<MathNode(Trim(BlockExpr(latexInput)), TRUE)>>

(***************************************************************************)
(* C3.  The fallback of a failed math span.                                *)
(***************************************************************************)
\* C3: when the backend fails on a math span, the fallback node reproduces the
\* span's delimited source text with the delimiters the user wrote, so its text
\* stands in the input as written.
C3_FallbackIsSourceText ==
  \A k \in 1..Len(Leaves(output)) :
    Leaves(output)[k].type = "error" => Includes(latexInput, Leaves(output)[k].text)

PlainLines(leaves) ==
  /\ \A k \in 1..Len(leaves) :
       \/ leaves[k] = BrNode
       \/ /\ leaves[k].type = "text"
          /\ leaves[k] = Plain(leaves[k].text)
          /\ leaves[k].text # <<>>
          /\ ~HasChar(leaves[k].text, {NL})
  /\ \A k \in 1..(Len(leaves) - 1) : leaves[k] = BrNode \/ leaves[k + 1] = BrNode

RECURSIVE OddParts(_, _)
OddParts(parts, k) ==
  IF k > Len(parts) THEN <<>> ELSE parts[k] \o OddParts(parts, k + 2)

\* The normalized text p as a reader sees it: the newline marker read as a
\* newline, every other marker (an item marker with its label) left out.
Visible(p) ==
  LET t0 == ReplaceAll(p, NEWLINE, <<NL>>)
      t1 == ReplaceAll(ReplaceAll(t0, BOLD_START, <<>>), BOLD_END, <<>>)
      t2 == ReplaceAll(ReplaceAll(t1, ITALIC_START, <<>>), ITALIC_END, <<>>)
      t3 == ReplaceAll(ReplaceAll(t2, UNDERLINE_START, <<>>), UNDERLINE_END, <<>>)
      t4 == OddParts(SplitListFrom(t3, 1), 1)
  IN  OddParts(SplitItemsFrom(t4, 1), 1)

\* C5: the literal text of the output nodes, in order, reconstructs the
\* normalized input; no character of it is dropped, trimmed or duplicated.
\* Stated here for the inputs without math, other commands left standing or
\* tag text of their own, and only as far as "no character is dropped", white
\* space apart: the characters of the normalized text other than markers and
\* white space can be read, in order, in the text of the output.
C5_NothingDropped ==
  (~HasChar(processedContent, {"$", BS}) /\ ~HasChar(latexInput, {"<"}))
    => IsSubseq(NoWS(Visible(processedContent)), NoWS(NodeText(Leaves(output))))

(***************************************************************************)
(* C6.  Nested formatting.                                                 *)
(***************************************************************************)
\* C6: the input "\textbf{bold \textit{both} end}" gives exactly three text
\* runs: "bold " bold only, "both" bold and italic, " end" bold only; the text
\* after the nested command's closing brace keeps the enclosing style.
C6_NestedFormatting ==
  latexInput = KeyTextbfBold \o KeyTextitBoth \o KeyEndBrace
    => Leaves(output) = <<TextNode(<<"b", "o", "l", "d", " ">>, TRUE, FALSE, FALSE),
                          TextNode(<<"b", "o", "t", "h">>, TRUE, TRUE, FALSE),
                          TextNode(<<" ", "e", "n", "d">>, TRUE, FALSE, FALSE)>>

(***************************************************************************)
(* C7 to C10.  Lists.                                                      *)
(***************************************************************************)
\* The parts of the normalized text at its list markers.
ListParts == SplitListFrom(processedContent, 1)

IsStart(part) == part = ENUM_START \/ part = LIST_START

IsEnd(part) == part = ENUM_END \/ part = LIST_END

\* The number of item markers in a list body.
ItemMarkerCount(body) == (Len(SplitItemsFrom(body, 1)) - 1) \div 2

\* C7: a list environment produces exactly one ListBlock with its items in
\* source order, one per item marker; "\begin{itemize}\item[(a)] Foo\item Bar
\* \end{itemize}" gives one ListBlock of two items, the first labelled "(a)"
\* with body "Foo", the second labelled with the bullet with body "Bar".
C7_ListOrdering ==
  /\ latexInput = BeginItemize \o KeyItemAFoo \o KeyItemBar \o EndItemize
       => /\ Len(output) = 1 /\ output[1].type = "list"
          /\ Len(output[1].items) = 2
          /\ output[1].items[1].label = <<"(", "a", ")">>
          /\ output[1].items[1].body = <<"F", "o", "o">>
          /\ output[1].items[2].label = Bullet
          /\ output[1].items[2].body = <<"B", "a", "r">>
  /\ (/\ Len(ListParts) = 5
      /\ ListParts[1] = <<>> /\ IsStart(ListParts[2])
      /\ IsEnd(ListParts[4]) /\ ListParts[5] = <<>>
      /\ ItemMarkerCount(ListParts[3]) >= 1)
       => /\ Len(output) = 1 /\ output[1].type = "list"
          /\ Len(output[1].items) = ItemMarkerCount(ListParts[3])

\* C8: a list-start with no later list-end takes the remainder of the string
\* as the list's content: the items after it stand in a ListBlock of the
\* output.
C8_UnterminatedList ==
  (/\ Len(ListParts) >= 3
   /\ IsStart(ListParts[Len(ListParts) - 1])
   /\ ItemMarkerCount(ListParts[Len(ListParts)]) >= 1
   /\ ItemsFrom(SplitItemsFrom(ListParts[Len(ListParts)], 1), 1) # <<>>)
    => /\ output # <<>>
       /\ output[Len(output)].type = "list"
       /\ output[Len(output)].items
            = ItemsFrom(SplitItemsFrom(ListParts[Len(ListParts)], 1), 1)

\* C9: a list-start met inside a list opens no list and leaves the current one
\* alone: once the list ends, the items collected before that list-start are
\* the first items of a ListBlock of the output.
C9_ListStartInsideList ==
  \A j \in 1..Len(ListParts) :
    LET before == ItemsFrom(SplitItemsFrom(ListParts[j + 1], 1), 1)
    IN  (/\ j + 3 <= Len(ListParts)
         /\ IsStart(ListParts[j]) /\ IsStart(ListParts[j + 2])
         /\ ItemMarkerCount(ListParts[j + 1]) >= 1
         /\ before # <<>>
         /\ \E e \in (j + 3)..Len(ListParts) : IsEnd(ListParts[e]))
          => \E n \in 1..Len(output) :
               /\ output[n].type = "list"
               /\ Len(output[n].items) >= Len(before)
               /\ \A k \in 1..(Len(before) - 1) : output[n].items[k] = before[k]
               /\ output[n].items[Len(before)].label = before[Len(before)].label

\* C10: in a list an empty chunk is dropped, except that an item whose marker
\* carried a non-empty label is kept, with that label and an empty body.
C10_LabelledEmptyItemKept ==
  (/\ Len(ListParts) = 5
   /\ ListParts[1] = <<>> /\ IsStart(ListParts[2])
   /\ IsEnd(ListParts[4]) /\ ListParts[5] = <<>>)
    => LET itemParts == SplitItemsFrom(ListParts[3], 1)
       IN  \A i \in 2..Len(itemParts) :
             (/\ StartsWithAt(itemParts[i - 1], 1, ITEM_LABEL_)
              /\ LabelOf(itemParts[i - 1]) # <<>>
              /\ Trim(itemParts[i]) = <<>>)
               => /\ output # <<>>
                  /\ \E k \in 1..Len(output[1].items) :
                       /\ output[1].items[k].label = LabelOf(itemParts[i - 1])
                       /\ output[1].items[k].body = <<>>

(***************************************************************************)
(* C11.  Unrecognized commands.                                            *)
(***************************************************************************)
Letters ==
  {"a", "b", "c", "d", "e", "f", "g", "h", "i", "j", "k", "l", "m", "n", "o",
   "p", "q", "r", "s", "t", "u", "v", "w", "x", "y", "z", "A", "B", "C", "D",
   "E", "F", "G", "H", "I", "J", "K", "L", "M", "N", "O", "P", "Q", "R", "S",
   "T", "U", "V", "W", "X", "Y", "Z"}

\* The name of the command whose backslash stands at position i: the longest
\* run of letters after it.
CommandNameAt(c, i) ==
  LET stop == FirstOf({k \in (i + 1)..Len(c) : c[k] \notin Letters})
  IN  SubSeq(c, i + 1, IF stop = 0 THEN Len(c) ELSE stop - 1)

\* The command names the normalizer rewrites.
RecognizedNames ==
  {Tail(ItemCmd), Tail(NewlineCmd), Tail(QuadCmd), Tail(QquadCmd),
   <<"t", "e", "x", "t">>, <<"t", "e", "x", "t", "b", "f">>,
   <<"t", "e", "x", "t", "i", "t">>,
   <<"u", "n", "d", "e", "r", "l", "i", "n", "e">>,
   <<"b", "e", "g", "i", "n">>, <<"e", "n", "d">>}

\* Every backslash of c begins a command with a name, and none of the names is
\* one the normalizer rewrites.
OnlyUnrecognized(c) ==
  \A i \in 1..Len(c) :
    c[i] = BS => /\ CommandNameAt(c, i) # <<>>
                 /\ CommandNameAt(c, i) \notin RecognizedNames

\* C11: an unrecognized backslash command passes through the normalizer as
\* literal text unchanged, also when its name begins with a recognized one
\* (\itemsep, \newlines, \quadratic): the normalized text of an input whose
\* commands are all unrecognized is the input.
C11_UnrecognizedUnchanged ==
  (HasChar(latexInput, {BS}) /\ OnlyUnrecognized(latexInput))
    => processedContent = latexInput

(***************************************************************************)
(* C12.  Adjacent delimiters.                                              *)
(***************************************************************************)
\* The body the inline renderer scans when the whole input is one segment.
Body == TagText(Trim(processedContent))

\* The math spans of that body.
Spans == MathSpans(Body, 1)

\* C12: the input "$$a$$$b$" parses as exactly one block-math span "a"
\* followed by exactly one inline-math span "b", with no nested or overlapping
\* match and no literal "$" left over.
C12_AdjacentDelimiters ==
  latexInput = KeyBlockA \o KeyInlineB
    => /\ Len(output) = 1
       /\ Leaves(output) = <<MathNode(<<"a">>, TRUE), MathNode(<<"b">>, FALSE)>>
       /\ Len(Spans) = 2
       /\ Spans[1].group = 1 /\ Spans[1].start = 1 /\ Spans[1].end = 5
       /\ Spans[2].group = 2 /\ Spans[2].start = 6 /\ Spans[2].end = 8

\* The input "$$a$$$b$" rendered: two math nodes.
C12_Witness ==
  /\ latexInput = KeyBlockA \o KeyInlineB
  /\ Len(Leaves(output)) = 2
  /\ Leaves(output)[1].type = "math" /\ Leaves(output)[2].type = "math"

(***************************************************************************)
(* C13.  The scenario of prose, inline math, a line break and block math.  *)
(***************************************************************************)
\* The nodes of the scenario with n line breaks before the block math.
RECURSIVE Breaks(_)
Breaks(n) == IF n = 0 THEN <<>> ELSE <<BrNode>> \o Breaks(n - 1)

ScenarioNodes(n) ==
  <<Plain(<<"S", "o", "l", "v", "e", ":", " ">>),
    MathNode(<<"x", "^", "2", "+", "1", "=", "0">>, FALSE),
    Plain(<<".", " ", "R", "o", "o", "t", "s", ":">>)>>
  \o Breaks(n)
  \o <<MathNode(<<"x", "=", BS, "p", "m", " ", "i">>, TRUE)>>

\* The scenario's input as it is written, four backslashes before the block
\* math, and with one line-break command, two backslashes.
ScenarioAsWritten == KeySolveRoots \o LineBreakCmd \o LineBreakCmd \o KeyBlockPm

ScenarioOneBreak == KeySolveRoots \o LineBreakCmd \o KeyBlockPm

\* C13: the input "Solve: $x^2+1=0$. Roots:\\\\$$x=\pm i$$" renders to exactly
\* the sequence text "Solve: ", inline math "x^2+1=0", text ". Roots:", one
\* line break, block math "x=\pm i".
C13_ScenarioAsWritten ==
  latexInput = ScenarioAsWritten
    => (Len(output) = 1 /\ Leaves(output) = ScenarioNodes(1))

\* C13, amended: each line-break command of the input gives one line break.
\* With one command, "Solve: $x^2+1=0$. Roots:\\$$x=\pm i$$", the output is
\* text "Solve: ", inline math "x^2+1=0", text ". Roots:", one line break,
\* block math "x=\pm i"; with the four backslashes of the scenario as written,
\* two commands, the same sequence with two line breaks.
C13_ScenarioLineBreaks ==
  /\ latexInput = ScenarioOneBreak
       => (Len(output) = 1 /\ Leaves(output) = ScenarioNodes(1))
  /\ latexInput = ScenarioAsWritten
       => (Len(output) = 1 /\ Leaves(output) = ScenarioNodes(2))

\* The scenario as written has been rendered, with two line breaks.
C13_Witness ==
  /\ latexInput = ScenarioAsWritten
  /\ Len(Leaves(output)) = 6
  /\ Leaves(output)[4] = BrNode /\ Leaves(output)[5] = BrNode

(***************************************************************************)
(* C14.  Empty input.                                                      *)
(***************************************************************************)
\* C14: rendering an empty document yields an empty output, no nodes, and no
\* error: with the input field empty the renderer returns nothing and has
\* normalized nothing.
C14_EmptyInputEmptyOutput ==
  latexInput = <<>> => (output = <<>> /\ processedContent = <<>>)

\* The field has been cleared and the renderer has run on the empty content.
C14_Witness == latexInput = <<>> /\ edits = 0 /\ output = <<>>

(***************************************************************************)
(* C15.  Formatting flags over a body.                                     *)
(***************************************************************************)
\* The input is one bold command around the whole text: it opens the input,
\* its closing brace is the only closing brace and ends the input, and no
\* other formatting command stands in it.
IsOneBold(c) ==
  /\ StartsWithAt(c, 1, TextbfOpen)
  /\ IndexOfFrom(c, <<"}">>, 1) = Len(c)
  /\ IndexOfFrom(c, TextbfOpen, 2) = 0
  /\ ~Includes(c, TextitOpen) /\ ~Includes(c, UnderlineOpen) /\ ~Includes(c, TextOpen)

\* C15: a flag set by a start token holds for every later text run of the body
\* until its end token, also after a math span or a line break in between: of
\* an input that is one bold command around the whole text, every text run is
\* bold and neither italic nor underlined.
C15_FlagsSpanBody ==
  IsOneBold(latexInput)
    => \A k \in 1..Len(Leaves(output)) :
         Leaves(output)[k].type = "text"
           => /\ Leaves(output)[k].bold
              /\ ~Leaves(output)[k].italic
              /\ ~Leaves(output)[k].underline

(***************************************************************************)
(* C16.  Markers are not shown.                                            *)
(***************************************************************************)
CloseTags == {<<"<", "/", "b", ">">>, <<"<", "/", "i", ">">>, <<"<", "/", "u", ">">>}

\* The marker strings of the normalizer and the tags they become.
MarkerForms == FixedMarkers \cup {ITEM_LABEL_} \cup OpenTags \cup CloseTags

ShowsMarker(t) == \E m \in MarkerForms : Includes(t, m)

\* The items of the lists of an output, in order.
RECURSIVE AllItems(_)
AllItems(nodes) ==
  IF nodes = <<>> THEN <<>>
  ELSE (IF Head(nodes).type = "list" THEN Head(nodes).items ELSE <<>>)
         \o AllItems(Tail(nodes))

\* C16: marker strings are never shown: for every input that spells out no
\* marker or tag itself (no "___" and no "<"), no text node and no item label of
\* the output holds a marker string or the tag it becomes.
C16_NoMarkerShown ==
  (~Includes(latexInput, U3) /\ ~HasChar(latexInput, {"<"}))
    => /\ \A k \in 1..Len(Leaves(output)) :
            Leaves(output)[k].type = "text" => ~ShowsMarker(Leaves(output)[k].text)
       /\ \A k \in 1..Len(AllItems(output)) :
            ~ShowsMarker(AllItems(output)[k].labelNode)

(***************************************************************************)
(* C17.  Segments.                                                         *)
(***************************************************************************)
RECURSIVE ItemBodies(_)
ItemBodies(items) ==
  IF items = <<>> THEN <<>> ELSE Head(items).body \o ItemBodies(Tail(items))

\* The texts of the segments of an output, in order: of a span its text, of a
\* list the bodies of its items.
RECURSIVE SegmentText(_)
SegmentText(nodes) ==
  IF nodes = <<>> THEN <<>>
  ELSE (IF Head(nodes).type = "span" THEN Head(nodes).text
        ELSE ItemBodies(Head(nodes).items)) \o SegmentText(Tail(nodes))

\* The normalized text p outside its list markers and item markers.
OutsideMarkers(p) ==
  OddParts(SplitItemsFrom(OddParts(SplitListFrom(p, 1), 1), 1), 1)

\* C17: the segments partition the normalized text without gaps or overlaps,
\* in order: the texts of the segments, one after the other, are the normalized
\* text (both read outside list and item markers and white space apart), and a
\* text without list markers is one PlainText segment, verbatim.
C17_SegmentsPartition ==
  ~Includes(latexInput, U3)
    => /\ NoWS(OutsideMarkers(SegmentText(output)))
            = NoWS(OutsideMarkers(processedContent))
       /\ (Len(ListParts) = 1 /\ Trim(processedContent) # <<>>)
            => (Len(output) = 1 /\ output[1].type = "span"
                /\ output[1].text = processedContent)

(***************************************************************************)
(* C18.  Block math before inline math.                                    *)
(***************************************************************************)
\* The input holds the block span "$$a$$" at position i and no other "$", no
\* bracket delimiter and no backslash command of the normalizer.
HoldsBlockAt(c, i) ==
  /\ StartsWithAt(c, i, KeyBlockA)
  /\ \A k \in 1..Len(c) : c[k] = "$" => k \in i..(i + 4)
  /\ ~Includes(c, <<BS, "[">>) /\ ~Includes(c, <<BS, "]">>)
  /\ processedContent = c

\* C18: block spans are located before inline spans, and inline spans are
\* matched only in the text left over, so a block span "$$a$$" of the input is
\* reported as block math also when it lies between an inline opener and
\* closer, as in "\($$a$$\)".
C18_BlockBeforeInline ==
  \A i \in 1..Len(latexInput) :
    HoldsBlockAt(latexInput, i)
      => \E k \in 1..Len(Leaves(output)) : Leaves(output)[k] = MathNode(<<"a">>, TRUE)

(***************************************************************************)
(* C19.  The dollars of an inline span.                                    *)
(***************************************************************************)
\* C19: a single-dollar inline span is recognized only when its opening "$"
\* does not follow another "$" and its closing "$" is not followed by another
\* "$"; "$$a$" holds no inline math span.  Stated of the spans of an input
\* that is one segment.
C19_InlineDollarsAlone ==
  /\ Len(ListParts) = 1
       => \A k \in 1..Len(Spans) :
            Spans[k].group = 2
              => /\ (Spans[k].start = 1 \/ Body[Spans[k].start - 1] # "$")
                 /\ (Spans[k].end = Len(Body) \/ Body[Spans[k].end + 1] # "$")
  /\ latexInput = <<"$", "$", "a", "$">>
       => \A k \in 1..Len(Leaves(output)) : Leaves(output)[k].type # "math"

(***************************************************************************)
(* C20.  The math spans of a body.                                         *)
(***************************************************************************)
RECURSIVE ItemBodySeq(_)
ItemBodySeq(items) ==
  IF items = <<>> THEN <<>> ELSE <<Head(items).body>> \o ItemBodySeq(Tail(items))

\* The bodies handed to the inline renderer for an output, in order, with the
\* nodes returned for each: the text of each span and the body of each item.
RECURSIVE BodiesOf(_)
BodiesOf(nodes) ==
  IF nodes = <<>> THEN <<>>
  ELSE (IF Head(nodes).type = "span" THEN <<Head(nodes).text>>
        ELSE ItemBodySeq(Head(nodes).items)) \o BodiesOf(Tail(nodes))

IsBlockSpan(sp) == sp.group \in {1, 3}

IsInlineSpan(sp) == sp.group \in {2, 4}

\* The spans sp of a body of length n lie in it, each begins after the one
\* before it has ended, and no position is in a block span and an inline span.
DisjointSorted(sp, n) ==
  /\ \A k \in 1..Len(sp) : 1 <= sp[k].start /\ sp[k].start < sp[k].end /\ sp[k].end <= n
  /\ \A k \in 1..(Len(sp) - 1) : sp[k].end < sp[k + 1].start
  /\ \A j, k \in 1..Len(sp) :
       (IsBlockSpan(sp[j]) /\ IsInlineSpan(sp[k]))
         => (sp[j].end < sp[k].start \/ sp[k].end < sp[j].start)

IsDollar(ch) == ch = "$"

\* The number of "$" in s.
CountDollars(s) == Len(SelectSeq(s, IsDollar))

\* The input holds exactly two "$", a newline between them, and no command.
IsDollarsAcrossLines(c) ==
  /\ CountDollars(c) = 2
  /\ ~HasChar(c, {BS})
  /\ \E i, j, k \in 1..Len(c) :
       i < j /\ j < k /\ c[i] = "$" /\ c[j] = NL /\ c[k] = "$"

RECURSIVE CountFrom(_, _, _)
CountFrom(s, p, i) ==
  LET j == IndexOfFrom(s, p, i)
  IN  IF j = 0 THEN 0 ELSE 1 + CountFrom(s, p, j + Len(p))

\* The label markers the labelled-item rule writes for the text t, one for
\* each match of \item[...] from position i on.
RECURSIVE LabelMarkersFrom(_, _)
LabelMarkersFrom(t, i) ==
  LET j == IndexOfFrom(t, ItemOpen, i)
      k == IF j = 0 THEN 0 ELSE IndexOfFrom(t, <<"]">>, j + Len(ItemOpen))
  IN  IF j = 0 \/ k = 0 THEN {}
      ELSE {ITEM_LABEL_ \o SubSeq(t, j + Len(ItemOpen), k - 1) \o U3}
             \cup LabelMarkersFrom(t, k + 1)

\* The text the spacing rules read: the output of the rules before them.
BeforeSpaces(c) == NormText(NormFormat(NormBreaks(NormItems(NormLists(c)))))

\* C22: no later rule of the normalizer matches text produced by an earlier
\* rule: a marker written by the labelled-item rule stands unchanged in the
\* normalized text, and the spacing rule finds no \quad that the input did not
\* hold but an earlier rule put together.
C22_RulesDoNotRematch ==
  /\ \A m \in LabelMarkersFrom(NormLists(latexInput), 1) : Includes(processedContent, m)
  /\ CountFrom(BeforeSpaces(latexInput), QuadCmd, 1) <= CountFrom(latexInput, QuadCmd, 1)

(***************************************************************************)
(* C23.  Item labels.                                                      *)
(***************************************************************************)
\* C23: every item of a list carries a label, the bracketed label of its
\* marker as written or else the bullet, and the label node shows that label
\* and nothing else.
C23_ItemLabelShown ==
  \A k \in 1..Len(AllItems(output)) :
    /\ AllItems(output)[k].label # <<>>
    /\ AllItems(output)[k].labelNode = AllItems(output)[k].label

(***************************************************************************)
(* The loop of renderInlineContent, one call of exec at a time.            *)
(***************************************************************************)
ScanAlphabet == {"$", "a", NL, BS, "(", ")", "[", "]"}

\* Bodies with several matches, of all four alternatives.
ScanLong ==
  {KeyInlineA \o KeyBlockA \o <<"a">> \o KeyBracketA \o KeyInlineB,
   KeyBlockA \o KeyInlineB, KeyBlockPm \o <<NL>> \o KeyInlineA \o <<"$">>}

ScanBodies == UNION {[1..n -> ScanAlphabet] : n \in 0..MaxBody} \cup ScanLong

ScanInit ==
  /\ scanBody \in ScanBodies
  /\ scanPos = 1
  /\ scanDone = FALSE
  /\ NoRenderer /\ NoBuilder /\ NoHook

\* exec returned a match: the text before it and the match are pushed and
\* lastIndex moves behind the match.
ExecMatch ==
  /\ ~scanDone
  /\ ExecIndex(scanBody, scanPos) # 0
  /\ LET i == ExecIndex(scanBody, scanPos)
     IN  scanPos' = NextIndex(i, mathPattern(scanBody, i))
  /\ UNCHANGED <<scanBody, scanDone, rendererVars, builderVars, hookVars>>

\* exec returned null: the loop is left.
ExecNull ==
  /\ ~scanDone
  /\ ExecIndex(scanBody, scanPos) = 0
  /\ scanDone' = TRUE
  /\ UNCHANGED <<scanBody, scanPos, rendererVars, builderVars, hookVars>>

ScanNext == ExecMatch \/ ExecNull

\* The loop is synchronous code: it takes its next step whenever it has one.
ScanSpec == ScanInit /\ [][ScanNext]_vars /\ WF_vars(ScanNext)

(***************************************************************************)
(* C30.  The scan terminates.                                              *)
(***************************************************************************)
\* C30: the math-scanning loop terminates for every body: exec returns null
\* in the end, every match moves the scan position strictly forward, past at
\* least one character, and lastIndex never exceeds the length of the body.
C30_ScanTerminates ==
  /\ <>scanDone
  /\ [](scanPos - 1 <= Len(scanBody))
  /\ [][~scanDone' => scanPos' > scanPos]_scanVars

\* A body of four matches has been scanned to its end.
C30_Witness ==
  /\ scanDone
  /\ scanBody = KeyInlineA \o KeyBlockA \o <<"a">> \o KeyBracketA \o KeyInlineB
  /\ scanPos = Len(scanBody) + 1

(***************************************************************************)
(* QuestionBuilder: the list of questions, the AI modification of a        *)
(* question's text with its undo, and the submission of a question.        *)
(***************************************************************************)
\* What the user types into the text and answer fields, what the modify
\* service returns as modifiedCode, and what is typed as a prompt.
UserTexts == {"", "a", "b"}

ModifiedCodes == {"m"}

Prompts == {<<>>, <<" ">>, <<"p">>}

RequiredMessage == "Please fill in all required fields"

ModifyMessage == "Failed to modify LaTeX"

SubmitMessage == "Failed to submit question"

\* { ...m, [k]: v } and the object m after delete m[k].
Put(m, k, v) == [x \in DOMAIN m \cup {k} |-> IF x = k THEN v ELSE m[x]]

Without(m, k) == [x \in DOMAIN m \ {k} |-> m[x]]

\* The sequence s without its k-th element.
RemoveAt(s, k) == SubSeq(s, 1, k - 1) \o SubSeq(s, k + 1, Len(s))

\* A new question: every field empty but the two with a default; answer
\* stands for the required fields other than text, all tested alike.
BlankQuestion(id) == [id |-> id, text |-> "", answer |-> ""]

Ids(qs) == {qs[k].id : k \in 1..Len(qs)}

\* questions.find(q => q.id === questionId), for an id of the list.
Find(qs, questionId) == qs[FirstOf({k \in 1..Len(qs) : qs[k].id = questionId})]

\* prev.filter(q => q.id !== questionId)
FilterOut(qs, questionId) == SelectSeq(qs, LAMBDA q : q.id # questionId)

\* prev.map(q => q.id === questionId ? { ...q, [fieldName]: newValue } : q)
SetField(qs, questionId, fieldName, newValue) ==
  [k \in 1..Len(qs) |->
     IF qs[k].id = questionId THEN [qs[k] EXCEPT ![fieldName] = newValue] ELSE qs[k]]

\* The requests of rs with those sent for a question whose id is in gone
\* marked: their question has left the list. Nothing in the program reads
\* the mark.
MarkRemoved(rs, gone) ==
  [k \in 1..Len(rs) |->
     IF rs[k].questionId \in gone THEN [rs[k] EXCEPT !.removed = TRUE] ELSE rs[k]]

getAIState(questionId) ==
  IF questionId \in DOMAIN aiStates THEN aiStates[questionId]
  ELSE [prompt |-> <<>>, isLoading |-> FALSE, error |-> null]

BuilderInit ==
  /\ questions = <<BlankQuestion(1)>>
  /\ nextId = 2
  /\ aiStates = EmptyMap /\ history = EmptyMap /\ aiRequests = <<>>
  /\ submitLoading = EmptyMap /\ submitError = EmptyMap /\ submitSuccess = EmptyMap
  /\ submitRequests = <<>> /\ submitTimers = <<>>
  /\ NoRenderer /\ NoScan /\ NoHook

addQuestion ==
  /\ nextId <= MaxId
  /\ questions' = Append(questions, BlankQuestion(nextId))
  /\ nextId' = nextId + 1
  /\ UNCHANGED <<aiStates, history, aiRequests, submitLoading, submitError,
                 submitSuccess, submitRequests, submitTimers>>
  /\ UNCHANGED <<rendererVars, scanVars, hookVars>>

deleteQuestion(questionId) ==
  /\ questionId \in Ids(questions)
  /\ questions' = FilterOut(questions, questionId)
  /\ aiStates' = Without(aiStates, questionId)
  /\ history' = Without(history, questionId)
  /\ aiRequests' = MarkRemoved(aiRequests, {questionId})
  /\ UNCHANGED <<nextId, submitLoading, submitError, submitSuccess,
                 submitRequests, submitTimers>>
  /\ UNCHANGED <<rendererVars, scanVars, hookVars>>

updateQuestionField(questionId, fieldName, newValue) ==
  /\ questionId \in Ids(questions)
  /\ questions' = SetField(questions, questionId, fieldName, newValue)
  /\ UNCHANGED <<nextId, aiStates, history, aiRequests, submitLoading, submitError,
                 submitSuccess, submitRequests, submitTimers>>
  /\ UNCHANGED <<rendererVars, scanVars, hookVars>>

\* The prompt input, disabled while the question's request is loading.
updateAIPrompt(questionId, prompt) ==
  /\ questionId \in Ids(questions)
  /\ ~getAIState(questionId).isLoading
  /\ aiStates' = Put(aiStates, questionId,
                     [getAIState(questionId) EXCEPT !.prompt = prompt, !.error = null])
  /\ UNCHANGED <<questions, nextId, history, aiRequests, submitLoading, submitError,
                 submitSuccess, submitRequests, submitTimers>>
  /\ UNCHANGED <<rendererVars, scanVars, hookVars>>

\* handleAIModify up to its await: the guard, the loading state, the request
\* with the text and the state of the render it was called from.
handleAIModify(questionId) ==
  /\ questionId \in Ids(questions)
  /\ Len(aiRequests) < MaxPending
  /\ LET state == getAIState(questionId)
         currentLatex == Find(questions, questionId).text
     IN  IF Trim(state.prompt) = <<>> \/ state.isLoading
           THEN UNCHANGED <<aiStates, aiRequests>>
         ELSE /\ aiStates' = Put(aiStates, questionId,
                                 [state EXCEPT !.isLoading = TRUE, !.error = null])
              /\ aiRequests' = Append(aiRequests,
                                 [questionId |-> questionId, currentLatex |-> currentLatex,
                                  prompt |-> state.prompt, removed |-> FALSE])
  /\ UNCHANGED <<questions, nextId, history, submitLoading, submitError,
                 submitSuccess, submitRequests, submitTimers>>
  /\ UNCHANGED <<rendererVars, scanVars, hookVars>>

\* handleAIModify after its await, the k-th request answered with success
\* and the code modifiedCode.
handleAIModifyOk(k, modifiedCode) ==
  /\ k \in 1..Len(aiRequests)
  /\ LET r == aiRequests[k]
     IN  /\ history' = Put(history, r.questionId,
                           Some([previousText |-> r.currentLatex,
                                 modificationPrompt |-> r.prompt]))
         /\ questions' = SetField(questions, r.questionId, "text", modifiedCode)
         /\ aiStates' = Put(aiStates, r.questionId,
                            [prompt |-> <<>>, isLoading |-> FALSE, error |-> null])
  /\ aiRequests' = RemoveAt(aiRequests, k)
  /\ UNCHANGED <<nextId, submitLoading, submitError, submitSuccess,
                 submitRequests, submitTimers>>
  /\ UNCHANGED <<rendererVars, scanVars, hookVars>>

\* handleAIModify after its await, the k-th request failed: the catch block.
handleAIModifyFailed(k) ==
  /\ k \in 1..Len(aiRequests)
  /\ LET r == aiRequests[k]
     IN  aiStates' = Put(aiStates, r.questionId,
                         [prompt |-> r.prompt, isLoading |-> FALSE,
                          error |-> Some(ModifyMessage)])
  /\ aiRequests' = RemoveAt(aiRequests, k)
  /\ UNCHANGED <<questions, nextId, history, submitLoading, submitError,
                 submitSuccess, submitRequests, submitTimers>>
  /\ UNCHANGED <<rendererVars, scanVars, hookVars>>

handleUndo(questionId) ==
  /\ questionId \in Ids(questions)
  /\ IF questionId \in DOMAIN history /\ history[questionId] # null
       THEN /\ questions' = SetField(questions, questionId, "text",
                                     history[questionId][1].previousText)
            /\ history' = Put(history, questionId, null)
     ELSE UNCHANGED <<questions, history>>
  /\ UNCHANGED <<nextId, aiStates, aiRequests, submitLoading, submitError,
                 submitSuccess, submitRequests, submitTimers>>
  /\ UNCHANGED <<rendererVars, scanVars, hookVars>>

\* A clearAllQuestions that sets nextId to the id of the question it creates.
clearAllQuestionsSameId ==
  /\ questions' = <<BlankQuestion(1)>>
  /\ aiStates' = EmptyMap /\ history' = EmptyMap
  /\ submitLoading' = EmptyMap /\ submitError' = EmptyMap /\ submitSuccess' = EmptyMap
  /\ nextId' = 1
  /\ aiRequests' = MarkRemoved(aiRequests, Ids(questions))
  /\ UNCHANGED <<submitRequests, submitTimers>>
  /\ UNCHANGED <<rendererVars, scanVars, hookVars>>

\* clearAllQuestions with the confirmation accepted.
clearAllQuestions ==
  /\ questions' = <<BlankQuestion(1)>>
  /\ aiStates' = EmptyMap /\ history' = EmptyMap
  /\ submitLoading' = EmptyMap /\ submitError' = EmptyMap /\ submitSuccess' = EmptyMap
  /\ nextId' = 2
  /\ aiRequests' = MarkRemoved(aiRequests, Ids(questions))
  /\ UNCHANGED <<submitRequests, submitTimers>>
  /\ UNCHANGED <<rendererVars, scanVars, hookVars>>

\* The Submit button, disabled while submitLoading[id]: handleSubmitQuestion
\* up to its await, or to the return of the validation.
handleSubmitQuestion(questionId) ==
  /\ questionId \in Ids(questions)
  /\ ~(questionId \in DOMAIN submitLoading /\ submitLoading[questionId])
  /\ Len(submitRequests) + Len(submitTimers) < MaxPending
  /\ LET question == Find(questions, questionId)
     IN  IF question.text = "" \/ question.answer = ""
           THEN /\ submitError' = Put(submitError, questionId, Some(RequiredMessage))
                /\ UNCHANGED <<submitLoading, submitSuccess, submitRequests>>
         ELSE /\ submitLoading' = Put(submitLoading, questionId, TRUE)
              /\ submitError' = Put(submitError, questionId, null)
              /\ submitSuccess' = Put(submitSuccess, questionId, FALSE)
              /\ submitRequests' = Append(submitRequests, questionId)
  /\ UNCHANGED <<questions, nextId, aiStates, history, aiRequests, submitTimers>>
  /\ UNCHANGED <<rendererVars, scanVars, hookVars>>

\* handleSubmitQuestion after its await, data.success: the timeout is set.
handleSubmitOk(k) ==
  /\ k \in 1..Len(submitRequests)
  /\ LET questionId == submitRequests[k]
     IN  /\ submitSuccess' = Put(submitSuccess, questionId, TRUE)
         /\ submitError' = Put(submitError, questionId, null)
         /\ submitLoading' = Put(submitLoading, questionId, FALSE)
         /\ submitTimers' = Append(submitTimers, questionId)
  /\ submitRequests' = RemoveAt(submitRequests, k)
  /\ UNCHANGED <<questions, nextId, aiStates, history, aiRequests>>
  /\ UNCHANGED <<rendererVars, scanVars, hookVars>>

\* handleSubmitQuestion after its await, the request failed: catch, finally.
handleSubmitFailed(k) ==
  /\ k \in 1..Len(submitRequests)
  /\ LET questionId == submitRequests[k]
     IN  /\ submitError' = Put(submitError, questionId, Some(SubmitMessage))
         /\ submitLoading' = Put(submitLoading, questionId, FALSE)
  /\ submitRequests' = RemoveAt(submitRequests, k)
  /\ UNCHANGED <<questions, nextId, aiStates, history, aiRequests,
                 submitSuccess, submitTimers>>
  /\ UNCHANGED <<rendererVars, scanVars, hookVars>>

\* The callback of the oldest setTimeout, three seconds after its success.
submitTimeout ==
  /\ submitTimers # <<>>
  /\ submitSuccess' = Put(submitSuccess, Head(submitTimers), FALSE)
  /\ submitTimers' = Tail(submitTimers)
  /\ UNCHANGED <<questions, nextId, aiStates, history, aiRequests,
                 submitLoading, submitError, submitRequests>>
  /\ UNCHANGED <<rendererVars, scanVars, hookVars>>

\* The list and the AI modification.
ModifyNext ==
  \/ addQuestion
  \/ \E q \in 1..MaxId : deleteQuestion(q)
  \/ clearAllQuestions
  \/ \E q \in 1..MaxId, v \in UserTexts : updateQuestionField(q, "text", v)
  \/ \E q \in 1..MaxId, p \in Prompts : updateAIPrompt(q, p)
  \/ \E q \in 1..MaxId : handleAIModify(q)
  \/ \E k \in 1..MaxPending, c \in ModifiedCodes : handleAIModifyOk(k, c)
  \/ \E k \in 1..MaxPending : handleAIModifyFailed(k)
  \/ \E q \in 1..MaxId : handleUndo(q)

ModifySpec == BuilderInit /\ [][ModifyNext]_vars

\* The list alone: its three operations and the editing of the fields.
ListNext ==
  \/ addQuestion
  \/ \E q \in 1..MaxId : deleteQuestion(q)
  \/ clearAllQuestions
  \/ \E q \in 1..MaxId, f \in {"text", "answer"}, v \in UserTexts :
       updateQuestionField(q, f, v)

ListSpec == BuilderInit /\ [][ListNext]_vars

\* The list and the submission.
SubmitNext ==
  \/ addQuestion
  \/ \E q \in 1..MaxId : deleteQuestion(q)
  \/ clearAllQuestions
  \/ \E q \in 1..MaxId, f \in {"text", "answer"}, v \in UserTexts :
       updateQuestionField(q, f, v)
  \/ \E q \in 1..MaxId : handleSubmitQuestion(q)
  \/ \E k \in 1..MaxPending : handleSubmitOk(k)
  \/ \E k \in 1..MaxPending : handleSubmitFailed(k)
  \/ submitTimeout

SubmitSpec == BuilderInit /\ [][SubmitNext]_vars

(***************************************************************************)
(* C24.  A response whose question has left the list.                      *)
(***************************************************************************)
\* The step answers the k-th request, with success or with a failure.
Answers(k) == k \in 1..Len(aiRequests) /\ aiRequests' = RemoveAt(aiRequests, k)

\* C24: the response of an AI-modify request that arrives after its question
\* was removed by deleteQuestion or clearAllQuestions changes no question of
\* the list, a new question of the same id included, and creates no aiStates
\* and no history entry.
C24_LateResponseIgnored ==
  [][\A k \in 1..MaxPending :
       (Answers(k) /\ aiRequests[k].removed)
         => /\ questions' = questions
            /\ DOMAIN aiStates' \subseteq DOMAIN aiStates
            /\ DOMAIN history' \subseteq DOMAIN history]_vars

(***************************************************************************)
(* C25.  Undo of an AI modification.                                       *)
(***************************************************************************)
\* C25: a successful AI modification of a question of the list records, for
\* the undo, the text the question had immediately before the modification
\* was applied, also when the text was edited while the request was pending;
\* handleUndo sets the text back to the recorded one and clears the entry,
\* and a handleUndo without an entry changes nothing.
C25_UndoRestoresPriorText ==
  [][/\ \A k \in 1..MaxPending, c \in ModifiedCodes :
          (handleAIModifyOk(k, c) /\ ~aiRequests[k].removed)
            => history'[aiRequests[k].questionId][1].previousText
                 = Find(questions, aiRequests[k].questionId).text
     /\ \A q \in 1..MaxId :
          handleUndo(q)
            => IF q \in DOMAIN history /\ history[q] # null
                 THEN /\ Find(questions', q).text = history[q][1].previousText
                      /\ history'[q] = null
               ELSE questions' = questions /\ history' = history]_vars

(***************************************************************************)
(* C26.  One AI request for a question at a time.                          *)
(***************************************************************************)
\* The requests sent for the question of id q that is in the list now.
Outstanding(q) == {k \in 1..Len(aiRequests) : aiRequests[k].questionId = q /\ ~aiRequests[k].removed}

\* C26: for each question of the list at most one AI-modify request is
\* outstanding at any time, and a call of handleAIModify made while the
\* question's state is loading sends no request.
C26_OneRequestPerQuestion ==
  /\ [](\A q \in Ids(questions) : Cardinality(Outstanding(q)) <= 1)
  /\ [][\A q \in 1..MaxId :
          (handleAIModify(q) /\ getAIState(q).isLoading) => aiRequests' = aiRequests]_vars

(***************************************************************************)
(* C27.  The ids of the list.                                              *)
(***************************************************************************)
\* C27: after any sequence of addQuestion, deleteQuestion and
\* clearAllQuestions no two questions of the list have the same id and nextId
\* is greater than every id of the list.
C27_IdsUnique ==
  /\ \A i, j \in 1..Len(questions) : questions[i].id = questions[j].id => i = j
  /\ \A k \in 1..Len(questions) : nextId > questions[k].id

\* A second question was added and the first one deleted.
C27_Witness ==
  /\ Len(questions) = 1
  /\ questions[1].id = 2
  /\ nextId = 3

(***************************************************************************)
(* C28.  The submit status of a question.                                  *)
(***************************************************************************)
\* submitSuccess[q] is true; submitError[q] is a message.
ShowsSuccess(q) == q \in DOMAIN submitSuccess /\ submitSuccess[q]

ShowsError(q) == q \in DOMAIN submitError /\ submitError[q] # null

\* The validation of handleSubmitQuestion rejects the question of id q.
FailsValidation(q) == Find(questions, q).text = "" \/ Find(questions, q).answer = ""

\* C28: for every question of the list submitSuccess true and a non-null
\* submitError never hold at the same time, and a handleSubmitQuestion that
\* fails the validation of the required fields sends no request and does not
\* set submitLoading.
C28_SubmitStatusConsistent ==
  /\ [](\A q \in Ids(questions) : ~(ShowsSuccess(q) /\ ShowsError(q)))
  /\ [][\A q \in Ids(questions) :
          (handleSubmitQuestion(q) /\ FailsValidation(q))
            => submitRequests' = submitRequests /\ submitLoading' = submitLoading]_vars

(***************************************************************************)
(* useDropdownData: the hook, from its mount on.                           *)
(***************************************************************************)
\* The messages of the errors fetchAllDropdownData throws.
FetchMessages == {"HTTP error! status: 500", "Failed to fetch dropdown data"}

\* The state after the first render and its effect: the initial fetch is
\* awaited. data is 0 for the empty lists of useState and k for the data the
\* k-th call returned.
HookInit ==
  /\ data = 0
  /\ loading = TRUE
  /\ error = null
  /\ calls = <<"pending">>
  /\ NoRenderer /\ NoScan /\ NoBuilder

\* refetch: fetchData up to its await.
fetchData ==
  /\ Len(calls) < MaxFetches
  /\ loading' = TRUE
  /\ error' = null
  /\ calls' = Append(calls, "pending")
  /\ UNCHANGED <<data, rendererVars, scanVars, builderVars>>

\* fetchData after its await, the k-th call returned its data: try, finally.
fetchResolved(k) ==
  /\ k \in 1..Len(calls) /\ calls[k] = "pending"
  /\ data' = k
  /\ loading' = FALSE
  /\ calls' = [calls EXCEPT ![k] = "resolved"]
  /\ UNCHANGED <<error, rendererVars, scanVars, builderVars>>

\* fetchData after its await, the k-th call threw: catch, finally.
fetchRejected(k, errorMessage) ==
  /\ k \in 1..Len(calls) /\ calls[k] = "pending"
  /\ error' = Some(errorMessage)
  /\ loading' = FALSE
  /\ calls' = [calls EXCEPT ![k] = "rejected"]
  /\ UNCHANGED <<data, rendererVars, scanVars, builderVars>>

HookNext ==
  \/ fetchData
  \/ \E k \in 1..MaxFetches : fetchResolved(k)
  \/ \E k \in 1..MaxFetches, m \in FetchMessages : fetchRejected(k, m)

HookSpec == HookInit /\ [][HookNext]_vars

(***************************************************************************)
(* C29.  loading, error and data under overlapping fetches.                *)
(***************************************************************************)
\* The calls still awaited, and those that returned data.
Awaited == {k \in 1..Len(calls) : calls[k] = "pending"}

Returned == {k \in 1..Len(calls) : calls[k] = "resolved"}

\* C29: loading is true exactly while a call of fetchAllDropdownData started
\* by the hook is awaited, overlapping calls of refetch included; a failed
\* fetch sets error and leaves data as it was; and data is the data of the
\* most recently started call among those that returned data.
C29_LoadingTracksFetches ==
  /\ [](loading <=> Awaited # {})
  /\ [](\A k \in Returned : data >= k)
  /\ [][\A k \in 1..MaxFetches, m \in FetchMessages :
          fetchRejected(k, m) => error' # null /\ data' = data]_vars

=============================================================================
